---- MODULE Spec2Model ----
(***************************************************************************)
(* subtle-derive: derive macros that generate constant-time comparison     *)
(* methods (ct_eq, ct_gt, ct_lt) for structs, plus the PartialEq /         *)
(* PartialOrd / Ord adapters.  The macros of src/src/lib.rs are modelled    *)
(* as actions that build the generated statement blocks; the generated     *)
(* blocks are then executed statement by statement on two operand values.  *)
(* The accumulator types of the `subtle` crate (IteratedEq,                *)
(* IteratedGreater, IteratedLess) and the leaf comparisons on u8 are not   *)
(* part of src/ and follow the specification's sections 3 and 4.           *)
(***************************************************************************)
EXTENDS Integers, Sequences, FiniteSets, TLC

\* ------------------------------------------------------------- bounds
\* Largest number of fields of a derived struct.
MaxFields == 3
\* Leaf (u8) field values range over 0..MaxVal.
MaxVal == 1

\* ------------------------------------------------- carriers (subtle::Choice)
CarrierBits == 8
FalseMask == 0
TrueMask == 255

RECURSIVE BitAndW(_, _, _)
BitAndW(x, y, w) ==
  IF w = 0 THEN 0
  ELSE (x % 2) * (y % 2) + 2 * BitAndW(x \div 2, y \div 2, w - 1)

RECURSIVE BitOrW(_, _, _)
BitOrW(x, y, w) ==
  IF w = 0 THEN 0
  ELSE (IF (x % 2) + (y % 2) > 0 THEN 1 ELSE 0)
       + 2 * BitOrW(x \div 2, y \div 2, w - 1)

BitAnd(x, y) == BitAndW(x, y, CarrierBits)
BitOr(x, y) == BitOrW(x, y, CarrierBits)

of_bool(c) == IF c THEN TrueMask ELSE FalseMask

\* Leaf primitives of the field type (u8).
leaf_ct_eq(x, y) == of_bool(x = y)
leaf_ct_gt(x, y) == of_bool(x > y)
leaf_ct_lt(x, y) == of_bool(x < y)

\* ------------------------------------------------------ derive input (syn::Data)
Idents == <<"x", "y", "z", "w", "v">>
Digit == <<"0", "1", "2", "3", "4", "5", "6", "7", "8", "9">>

RECURSIVE to_string(_)
to_string(i) ==
  IF i < 10 THEN Digit[i + 1]
  ELSE to_string(i \div 10) \o Digit[(i % 10) + 1]

StructNamed(n) == [kind |-> "Named", fields |-> SubSeq(Idents, 1, n)]
StructUnnamed(n) == [kind |-> "Unnamed", fields |-> [i \in 1..n |-> "u8"]]
StructUnit == [kind |-> "Unit", fields |-> << >>]
EnumData == [kind |-> "Enum", fields |-> << >>]

Inputs ==
  {StructNamed(n) : n \in 0..MaxFields}
    \cup {StructUnnamed(n) : n \in 0..MaxFields}
    \cup {StructUnit, EnumData}

IsStruct(d) == d.kind \in {"Named", "Unnamed", "Unit"}

\* How the compiler names field i (1-based position) of a value of shape d:
\* the declared identifier, or the zero-based tuple index.
Accessor(d, i) == IF d.kind = "Named" THEN d.fields[i] ELSE Digit[i]
FieldCount(d) == Len(d.fields)
FieldKeys(d) == {Accessor(d, i) : i \in 1..FieldCount(d)}
Values(d) == [FieldKeys(d) -> 0..MaxVal]

\* ------------------------------------------------------------ field_names
field_names_skip(d) ==
  CASE d.kind = "Named" -> [i \in 1..Len(d.fields) |-> d.fields[i]]
    [] d.kind = "Unnamed" ->
         [i \in 1..(IF Len(d.fields) = 0 THEN 0 ELSE Len(d.fields) - 1)
            |-> to_string(i)]
    [] d.kind = "Unit" -> << >>

field_names_zero(d) ==
  CASE d.kind = "Named" -> [i \in 1..Len(d.fields) |-> d.fields[i]]
    [] d.kind = "Unnamed" -> [i \in 1..Len(d.fields) |-> to_string(0)]
    [] d.kind = "Unit" -> << >>

field_names(d) ==
  CASE d.kind = "Named" -> [i \in 1..Len(d.fields) |-> d.fields[i]]
    [] d.kind = "Unnamed" -> [i \in 1..Len(d.fields) |-> to_string(i - 1)]
    [] d.kind = "Unit" -> << >>

\* ------------------------------------------------- generated statements
Stmt(op, ty, lobj, lfield, robj, rfield) ==
  [op |-> op, ty |-> ty, lobj |-> lobj, lfield |-> lfield,
   robj |-> robj, rfield |-> rfield]

UseStmt == Stmt("use", "", "", "", "", "")
InitStmt(ty) == Stmt("initiate", ty, "", "", "", "")
\* format!("ret.apply_xx(&self.{}, &other.{});", name, name)
ApplyStmt(op, name) == Stmt(op, "", "self", name, "other", name)
ReturnStmt == Stmt("return", "", "", "", "", "")

Applies(op, names) == [i \in 1..Len(names) |-> ApplyStmt(op, names[i])]

eq_block_selfself(d) ==
  <<UseStmt, InitStmt("IteratedEq")>>
    \o [i \in 1..Len(field_names(d)) |->
          Stmt("apply_eq", "", "self", field_names(d)[i],
               "self", field_names(d)[i])]
    \o <<ReturnStmt>>

eq_block(d) ==
  <<UseStmt, InitStmt("IteratedEq")>>
    \o Applies("apply_eq", field_names(d))
    \o <<ReturnStmt>>

Reverse(s) == [i \in 1..Len(s) |-> s[Len(s) + 1 - i]]

gt_block_rev(d) ==
  <<UseStmt, InitStmt("IteratedGreater")>>
    \o Applies("apply_gt", Reverse(field_names(d)))
    \o <<ReturnStmt>>

gt_block_eqinit(d) ==
  <<UseStmt, InitStmt("IteratedEq")>>
    \o Applies("apply_gt", field_names(d))
    \o <<ReturnStmt>>

gt_block_reinit(d) ==
  <<UseStmt, InitStmt("IteratedGreater")>>
    \o [k \in 1..(2 * Len(field_names(d))) |->
          IF k % 2 = 1 THEN InitStmt("IteratedGreater")
          ELSE ApplyStmt("apply_gt", field_names(d)[k \div 2])]
    \o <<ReturnStmt>>

gt_block(d) ==
  <<UseStmt, InitStmt("IteratedGreater")>>
    \o Applies("apply_gt", field_names(d))
    \o <<ReturnStmt>>

lt_block_gt(d) ==
  <<UseStmt, InitStmt("IteratedLess")>>
    \o Applies("apply_gt", field_names(d))
    \o <<ReturnStmt>>

lt_block_swapped(d) ==
  <<UseStmt, InitStmt("IteratedLess")>>
    \o [i \in 1..Len(field_names(d)) |->
          Stmt("apply_lt", "", "other", field_names(d)[i],
               "self", field_names(d)[i])]
    \o <<ReturnStmt>>

lt_block(d) ==
  <<UseStmt, InitStmt("IteratedLess")>>
    \o Applies("apply_lt", field_names(d))
    \o <<ReturnStmt>>

\* ------------------------------------- accumulators (subtle::Iterated*)
\* ret before `let mut ret = ...::initiate()` has run.
NoRet == [ty |-> "none", acc |-> FalseMask, tied |-> FalseMask,
          decided |-> FalseMask]

initiate_one(ty) ==
  IF ty = "IteratedEq"
  THEN [ty |-> ty, acc |-> 1, tied |-> FalseMask, decided |-> FalseMask]
  ELSE [ty |-> ty, acc |-> FalseMask, tied |-> 1, decided |-> FalseMask]

initiate(ty) ==
  IF ty = "IteratedEq"
  THEN [ty |-> ty, acc |-> TrueMask, tied |-> FalseMask, decided |-> FalseMask]
  ELSE [ty |-> ty, acc |-> FalseMask, tied |-> TrueMask, decided |-> FalseMask]

\* acc &= fieldEquals(x, y)
apply_eq(r, x, y) == [r EXCEPT !.acc = BitAnd(r.acc, leaf_ct_eq(x, y))]

\* result |= stillTiedSoFar & fieldGreaterThan(x, y);
\* stillTiedSoFar &= fieldEquals(x, y)
apply_gt(r, x, y) ==
  [r EXCEPT !.decided = BitOr(r.decided, BitAnd(r.tied, leaf_ct_gt(x, y))),
            !.tied = BitAnd(r.tied, leaf_ct_eq(x, y))]

apply_lt(r, x, y) ==
  [r EXCEPT !.decided = BitOr(r.decided, BitAnd(r.tied, leaf_ct_lt(x, y))),
            !.tied = BitAnd(r.tied, leaf_ct_eq(x, y))]

extract_result(r) == IF r.ty = "IteratedEq" THEN r.acc ELSE r.decided

\* The leaf primitives one apply step invokes on its field pair, in order:
\* apply_eq reads fieldEquals; apply_gt / apply_lt read the field's ordering
\* carrier and its fieldEquals.
LeafCalls(op) ==
  CASE op = "apply_eq" -> <<"ct_eq">>
    [] op = "apply_gt" -> <<"ct_gt", "ct_eq">>
    [] op = "apply_lt" -> <<"ct_lt", "ct_eq">>

\* ------------------------------------------- running a generated body
Operand(obj, field, a, b) == IF obj = "self" THEN a[field] ELSE b[field]

ExecStmt(s, r, a, b) ==
  CASE s.op = "use" -> r
    [] s.op = "initiate" -> initiate(s.ty)
    [] s.op = "apply_eq" ->
         apply_eq(r, Operand(s.lobj, s.lfield, a, b),
                  Operand(s.robj, s.rfield, a, b))
    [] s.op = "apply_gt" ->
         apply_gt(r, Operand(s.lobj, s.lfield, a, b),
                  Operand(s.robj, s.rfield, a, b))
    [] s.op = "apply_lt" ->
         apply_lt(r, Operand(s.lobj, s.lfield, a, b),
                  Operand(s.robj, s.rfield, a, b))

RECURSIVE Exec(_, _, _, _, _)
Exec(body, i, r, a, b) ==
  IF body[i].op = "return" THEN extract_result(r)
  ELSE Exec(body, i + 1, ExecStmt(body[i], r, a, b), a, b)

\* ------------------------------------------------------------ adapters
\* subtle::ConstantTimePartialOrd::ct_partial_cmp over the derived methods:
\* Equal when ct_eq, else Greater when ct_gt, else Less.
ct_partial_cmp(eqb, gtb, a, b) ==
  [is_some |-> TrueMask,
   value |-> IF Exec(eqb, 1, NoRet, a, b) = TrueMask THEN "Equal"
             ELSE IF Exec(gtb, 1, NoRet, a, b) = TrueMask THEN "Greater"
             ELSE "Less"]

\* subtle::ConstantTimeOrd::ct_cmp (default method): the value of
\* ct_partial_cmp, which is always present for a total order.
ct_cmp(eqb, gtb, a, b) == ct_partial_cmp(eqb, gtb, a, b).value

\* CtOption<T> -> Option<T>
into_option(c) ==
  IF c.is_some = TrueMask THEN [some |-> TRUE, value |-> c.value]
  ELSE [some |-> FALSE, value |-> "None"]

\* Choice -> bool
into_bool(c) == c # FalseMask

\* impl PartialEq: self.ct_eq(other).into()
eq(eqb, a, b) == into_bool(Exec(eqb, 1, NoRet, a, b))

partial_cmp_swapped(eqb, gtb, a, b) ==
  into_option(ct_partial_cmp(eqb, gtb, b, a))

\* impl PartialOrd: self.ct_partial_cmp(other).into()
partial_cmp(eqb, gtb, a, b) == into_option(ct_partial_cmp(eqb, gtb, a, b))

\* impl Ord: self.ct_cmp(other)
cmp(eqb, gtb, a, b) == ct_cmp(eqb, gtb, a, b)

\* --------------------------------------------------------------- state
VARIABLES
  data,     \* the DeriveInput's data the macros are applied to
  derived,  \* the derive macros expanded so far
  impls,    \* generated method bodies: ct_eq, ct_gt, ct_lt (<< >>: none)
  phase,    \* "expand" | "ready" | "idle" | "run" | "panic"
  self,     \* first operand
  other,    \* second operand
  res,      \* results of the calls made on this operand pair, in call order
  pc,       \* index of the next statement of the running body
  ret,      \* the running body's accumulator
  log,      \* statements the running (or last run) body has executed
  leafs     \* leaf primitives the running (or last run) body has invoked

vars == <<data, derived, impls, phase, self, other, res, pc, ret, log, leafs>>

Macros ==
  {"ConstantTimeEq", "ConstEq", "ConstantTimeGreater", "ConstantTimeLess",
   "ConstPartialOrd", "ConstOrd"}

\* The calls a user of the derived type makes on one operand pair (a, b):
\* the three constant-time methods in both directions, then the adapters.
Calls ==
  << <<"ct_eq", "fwd">>, <<"ct_gt", "fwd">>, <<"ct_lt", "fwd">>,
     <<"ct_eq", "rev">>, <<"ct_gt", "rev">>, <<"ct_lt", "rev">>,
     <<"eq", "fwd">>,
     <<"partial_cmp", "fwd">>, <<"partial_cmp", "rev">>,
     <<"cmp", "fwd">>, <<"cmp", "rev">> >>

CtMethods == {"ct_eq", "ct_gt", "ct_lt"}

NoValue == [f \in {} |-> 0]

Recv(dir) == IF dir = "fwd" THEN self ELSE other
Arg(dir) == IF dir = "fwd" THEN other ELSE self

HasNext == Len(res) < Len(Calls)
NextCall == Calls[Len(res) + 1]
CurBody == impls[NextCall[1]]

Init ==
  /\ data \in Inputs
  /\ derived = {}
  /\ impls = [m \in CtMethods |-> << >>]
  /\ phase = "expand"
  /\ self = NoValue
  /\ other = NoValue
  /\ res = << >>
  /\ pc = 0
  /\ ret = NoRet
  /\ log = << >>
  /\ leafs = << >>

\* A macro that reads the fields: panics on enums and unions, otherwise
\* emits the impl with the generated block as the method body.
Expand(macro, method, block) ==
  /\ phase = "expand"
  /\ macro \notin derived
  /\ IF IsStruct(data)
     THEN /\ impls' = [impls EXCEPT ![method] = block]
          /\ derived' = derived \cup {macro}
          /\ phase' = phase
     ELSE /\ phase' = "panic"
          /\ UNCHANGED <<impls, derived>>
  /\ UNCHANGED <<data, self, other, res, pc, ret, log, leafs>>

derive_eq == Expand("ConstantTimeEq", "ct_eq", eq_block(data))
derive_gt == Expand("ConstantTimeGreater", "ct_gt", gt_block(data))
derive_lt == Expand("ConstantTimeLess", "ct_lt", lt_block(data))

\* A macro that only reads the type's name.
ExpandAdapter(macro) ==
  /\ phase = "expand"
  /\ macro \notin derived
  /\ derived' = derived \cup {macro}
  /\ UNCHANGED <<data, impls, phase, self, other, res, pc, ret, log, leafs>>

derive_eq_impls == ExpandAdapter("ConstEq")
derive_partial_ord == ExpandAdapter("ConstPartialOrd")
derive_ord == ExpandAdapter("ConstOrd")

\* Every derive of the type has been expanded: the program compiles.
Compile ==
  /\ phase = "expand"
  /\ derived = Macros
  /\ phase' = "ready"
  /\ UNCHANGED <<data, derived, impls, self, other, res, pc, ret, log, leafs>>

\* The caller constructs a pair of values to compare.
Construct ==
  /\ phase = "ready"
  /\ \E a \in Values(data), b \in Values(data) :
       /\ self' = a
       /\ other' = b
  /\ phase' = "idle"
  /\ UNCHANGED <<data, derived, impls, res, pc, ret, log, leafs>>

\* Every call on the pair has returned; the pair goes out of scope.
Drop ==
  /\ phase = "idle"
  /\ ~HasNext
  /\ phase' = "ready"
  /\ self' = NoValue
  /\ other' = NoValue
  /\ res' = << >>
  /\ log' = << >>
  /\ leafs' = << >>
  /\ UNCHANGED <<data, derived, impls, pc, ret>>

\* Entering ct_eq / ct_gt / ct_lt.
Call ==
  /\ phase = "idle"
  /\ HasNext
  /\ NextCall[1] \in CtMethods
  /\ phase' = "run"
  /\ pc' = 1
  /\ ret' = NoRet
  /\ log' = << >>
  /\ leafs' = << >>
  /\ UNCHANGED <<data, derived, impls, self, other, res>>

Running(op) == phase = "run" /\ CurBody[pc].op = op

StepUse ==
  /\ Running("use")
  /\ pc' = pc + 1
  /\ log' = Append(log, CurBody[pc])
  /\ leafs' = leafs
  /\ UNCHANGED <<data, derived, impls, phase, self, other, res, ret>>

StepInitiate ==
  /\ Running("initiate")
  /\ ret' = ExecStmt(CurBody[pc], ret, Recv(NextCall[2]), Arg(NextCall[2]))
  /\ pc' = pc + 1
  /\ log' = Append(log, CurBody[pc])
  /\ leafs' = leafs
  /\ UNCHANGED <<data, derived, impls, phase, self, other, res>>

StepApply ==
  /\ phase = "run"
  /\ CurBody[pc].op \in {"apply_eq", "apply_gt", "apply_lt"}
  /\ ret' = ExecStmt(CurBody[pc], ret, Recv(NextCall[2]), Arg(NextCall[2]))
  /\ pc' = pc + 1
  /\ log' = Append(log, CurBody[pc])
  /\ leafs' = leafs \o LeafCalls(CurBody[pc].op)
  /\ UNCHANGED <<data, derived, impls, phase, self, other, res>>

StepReturn ==
  /\ Running("return")
  /\ res' = Append(res, extract_result(ret))
  /\ log' = Append(log, CurBody[pc])
  /\ leafs' = leafs
  /\ ret' = NoRet
  /\ pc' = 0
  /\ phase' = "idle"
  /\ UNCHANGED <<data, derived, impls, self, other>>

Adapter(method, value) ==
  /\ phase = "idle"
  /\ HasNext
  /\ NextCall[1] = method
  /\ res' = Append(res, value)
  /\ log' = << >>
  /\ leafs' = << >>
  /\ UNCHANGED <<data, derived, impls, phase, self, other, pc, ret>>

CallEq ==
  Adapter("eq", eq(impls["ct_eq"], Recv(NextCall[2]), Arg(NextCall[2])))

CallPartialCmp ==
  Adapter("partial_cmp",
          partial_cmp(impls["ct_eq"], impls["ct_gt"],
                      Recv(NextCall[2]), Arg(NextCall[2])))

CallCmp ==
  Adapter("cmp",
          cmp(impls["ct_eq"], impls["ct_gt"],
              Recv(NextCall[2]), Arg(NextCall[2])))

Next ==
  \/ derive_eq
  \/ derive_eq_impls
  \/ derive_gt
  \/ derive_lt
  \/ derive_partial_ord
  \/ derive_ord
  \/ Compile
  \/ Construct
  \/ Drop
  \/ Call
  \/ StepUse
  \/ StepInitiate
  \/ StepApply
  \/ StepReturn
  \/ CallEq
  \/ CallPartialCmp
  \/ CallCmp

Spec == Init /\ [][Next]_vars

\* ------------------------------------------------ reference semantics
N == FieldCount(data)
F(v, i) == v[Accessor(data, i)]
AllFieldsEqual(a, b) == \A i \in 1..N : F(a, i) = F(b, i)
FirstDiffers(a, b, i) ==
  /\ F(a, i) # F(b, i)
  /\ \A j \in 1..(i - 1) : F(a, j) = F(b, j)
LexGreater(a, b) == \E i \in 1..N : FirstDiffers(a, b, i) /\ F(a, i) > F(b, i)
LexLess(a, b) == \E i \in 1..N : FirstDiffers(a, b, i) /\ F(a, i) < F(b, i)

Masks == {FalseMask, TrueMask}
Dirs == {"fwd", "rev"}
Idx(m, d) == CHOOSE k \in 1..Len(Calls) : Calls[k] = <<m, d>>
Done(m, d) == phase \in {"idle", "run"} /\ Len(res) >= Idx(m, d)
Res(m, d) == res[Idx(m, d)]
IsTrue(m, d) == Res(m, d) = TrueMask

ApplyOps == {"apply_eq", "apply_gt", "apply_lt"}
ApplyCount(l) == Cardinality({i \in 1..Len(l) : l[i].op \in ApplyOps})
\* The last call that returned was one of the generated ct_* bodies.
LastRunComplete ==
  /\ phase = "idle"
  /\ Len(res) >= 1
  /\ Calls[Len(res)][1] \in CtMethods

ThreeFields == phase \in {"idle", "run"} /\ N = 3

\* ------------------------------------------------------------- claims

\* C1: the derived ct_eq returns true iff every field pair is equal
\* (so ct_eq(a, a) is true and one differing field, wherever it is, makes
\* the result false); the result is a carrier.
C1_EqIffAllFieldsEqual ==
  /\ Done("ct_eq", "fwd") =>
       /\ Res("ct_eq", "fwd") \in Masks
       /\ IsTrue("ct_eq", "fwd") <=> AllFieldsEqual(self, other)
       /\ self = other => IsTrue("ct_eq", "fwd")
  /\ Done("ct_eq", "rev") =>
       /\ Res("ct_eq", "rev") \in Masks
       /\ IsTrue("ct_eq", "rev") <=> AllFieldsEqual(other, self)

\* C1 witness: three fields, only the last one differs, ct_eq returned false.
C1_Witness ==
  /\ ThreeFields
  /\ Done("ct_eq", "fwd")
  /\ F(self, 1) = F(other, 1)
  /\ F(self, 2) = F(other, 2)
  /\ F(self, 3) # F(other, 3)
  /\ Res("ct_eq", "fwd") = FalseMask

\* C2: the derived ct_gt is true exactly when a first differing field
\* exists (in declaration order) and self's value there is the greater one;
\* later fields never change the result, and ct_gt(a, a) is false.
C2_GtIsLexicographic ==
  /\ Done("ct_gt", "fwd") =>
       /\ IsTrue("ct_gt", "fwd") <=> LexGreater(self, other)
       /\ self = other => Res("ct_gt", "fwd") = FalseMask
  /\ Done("ct_gt", "rev") =>
       (IsTrue("ct_gt", "rev") <=> LexGreater(other, self))

\* C2 witness: the first field is greater, both later fields are smaller,
\* and ct_gt returned true.
C2_Witness ==
  /\ ThreeFields
  /\ Done("ct_gt", "fwd")
  /\ F(self, 1) > F(other, 1)
  /\ F(self, 2) < F(other, 2)
  /\ F(self, 3) < F(other, 3)
  /\ IsTrue("ct_gt", "fwd")

\* C3: trichotomy: once ct_eq, ct_gt and ct_lt have all run on a pair,
\* exactly one of the three results is true.
C3_Trichotomy ==
  \A d \in Dirs :
    Done("ct_lt", d) =>
      Cardinality({m \in CtMethods : IsTrue(m, d)}) = 1

\* C3 witness: three fields, the pair first differs in the middle field,
\* where self is smaller, and ct_lt is the one result that is true.
C3_Witness ==
  /\ ThreeFields
  /\ Done("ct_lt", "fwd")
  /\ F(self, 1) = F(other, 1)
  /\ F(self, 2) < F(other, 2)
  /\ F(self, 3) > F(other, 3)
  /\ IsTrue("ct_lt", "fwd")
  /\ ~IsTrue("ct_gt", "fwd")
  /\ ~IsTrue("ct_eq", "fwd")

\* C4: antisymmetry: ct_gt(a, b) is true iff ct_lt(b, a) is true, ct_lt
\* being the separately generated apply_lt body.
C4_Antisymmetry ==
  Done("ct_lt", "rev") =>
    /\ IsTrue("ct_gt", "fwd") <=> IsTrue("ct_lt", "rev")
    /\ IsTrue("ct_gt", "rev") <=> IsTrue("ct_lt", "fwd")

\* C4 witness: a.ct_gt(b) and b.ct_lt(a) both returned true on a pair that
\* first differs in its last field.
C4_Witness ==
  /\ ThreeFields
  /\ Done("ct_lt", "rev")
  /\ FirstDiffers(self, other, 3)
  /\ IsTrue("ct_gt", "fwd")
  /\ IsTrue("ct_lt", "rev")

LeafCount(prim) == Cardinality({i \in 1..Len(leafs) : leafs[i] = prim})
LastMethod == Calls[Len(res)][1]
\* The body whose return a running call has reached.
AtReturn == phase = "run" /\ CurBody[pc].op = "return"

\* C5 as stated: each of ct_eq, ct_gt and ct_lt performs exactly n
\* leaf-primitive invocations on a struct with n fields.
C5_LeafCountIsFieldCount ==
  LastRunComplete => Len(leafs) = N

\* C5 (amended): every run performs exactly one apply step per field and
\* returns only after all of them, whatever the operands are; ct_eq thereby
\* invokes n leaf primitives (n fieldEquals), while ct_gt and ct_lt invoke
\* 2n (per field the ordering primitive and fieldEquals).
C5_ConstantOperationCount ==
  /\ phase = "run" => ApplyCount(log) <= N
  /\ AtReturn => ApplyCount(log) = N
  /\ LastRunComplete =>
       /\ ApplyCount(log) = N
       /\ LeafCount("ct_eq") = N
       /\ LastMethod = "ct_eq" => Len(leafs) = N
       /\ LastMethod = "ct_gt" => Len(leafs) = 2 * N /\ LeafCount("ct_gt") = N
       /\ LastMethod = "ct_lt" => Len(leafs) = 2 * N /\ LeafCount("ct_lt") = N

\* C5 witness: ct_gt has just returned on three-field operands that differ
\* in field 0 already, having applied all three fields (six leaf calls).
C5_Witness ==
  /\ ThreeFields
  /\ LastRunComplete
  /\ Calls[Len(res)] = <<"ct_gt", "fwd">>
  /\ F(self, 1) # F(other, 1)
  /\ ApplyCount(log) = 3
  /\ Len(leafs) = 6

\* C6: for a struct with no fields the generated bodies hold no apply
\* statement and report ct_eq = true, ct_gt = false, ct_lt = false.
C6_VacuousCase ==
  (phase \in {"idle", "run"} /\ N = 0) =>
    /\ \A m \in CtMethods : ApplyCount(impls[m]) = 0
    /\ \A d \in Dirs :
         /\ Done("ct_eq", d) => Res("ct_eq", d) = TrueMask
         /\ Done("ct_gt", d) => Res("ct_gt", d) = FalseMask
         /\ Done("ct_lt", d) => Res("ct_lt", d) = FalseMask

\* C6 witness: a unit struct on which all three methods have returned.
C6_Witness ==
  /\ data = StructUnit
  /\ Done("ct_lt", "rev")
  /\ Res("ct_eq", "fwd") = TrueMask
  /\ Res("ct_gt", "fwd") = FalseMask

OrderingOf(d) ==
  IF IsTrue("ct_eq", d) THEN "Equal"
  ELSE IF IsTrue("ct_gt", d) THEN "Greater"
  ELSE "Less"

ReverseOrdering(o) ==
  CASE o = "Less" -> "Greater"
    [] o = "Greater" -> "Less"
    [] o = "Equal" -> "Equal"

\* C7: partial_cmp / cmp give Equal when ct_eq is true, otherwise Greater
\* when ct_gt is true, otherwise Less; so Less exactly when ct_lt is true,
\* compare(a, a) = Equal, and compare(b, a) is the reverse of compare(a, b).
C7_CompareFromCarriers ==
  /\ \A d \in Dirs :
       /\ Done("partial_cmp", d) =>
            /\ Res("partial_cmp", d).some
            /\ Res("partial_cmp", d).value = OrderingOf(d)
            /\ Res("partial_cmp", d).value = "Less" <=> IsTrue("ct_lt", d)
            /\ self = other => Res("partial_cmp", d).value = "Equal"
       /\ Done("cmp", d) =>
            /\ Res("cmp", d) = OrderingOf(d)
            /\ Res("cmp", d) = "Less" <=> IsTrue("ct_lt", d)
  /\ Done("partial_cmp", "rev") =>
       Res("partial_cmp", "rev").value
         = ReverseOrdering(Res("partial_cmp", "fwd").value)
  /\ Done("cmp", "rev") =>
       Res("cmp", "rev") = ReverseOrdering(Res("cmp", "fwd"))

\* C7 witness: first field tied, second smaller: compare(a, b) = Less and
\* compare(b, a) = Greater.
C7_Witness ==
  /\ phase = "idle"
  /\ N >= 2
  /\ Done("cmp", "rev")
  /\ F(self, 1) = F(other, 1)
  /\ F(self, 2) < F(other, 2)
  /\ Res("partial_cmp", "fwd").value = "Less"
  /\ Res("partial_cmp", "rev").value = "Greater"
  /\ Res("cmp", "fwd") = "Less"

InOrderingRun == phase = "run" /\ NextCall[1] \in {"ct_gt", "ct_lt"}

\* C8: within a ct_gt / ct_lt run the accumulator starts tied = true,
\* decided = false; afterwards tied only goes true -> false, decided only
\* false -> true, and once the fields are no longer tied (in particular
\* once the result is latched) no later field changes the result.
C8_MonotonicCarriers ==
  [][(InOrderingRun /\ phase' = "run") =>
       /\ ret.ty = "none" =>
            \/ ret' = ret
            \/ (ret'.tied = TrueMask /\ ret'.decided = FalseMask)
       /\ ret.ty # "none" =>
            /\ ret'.ty = ret.ty
            /\ ret.tied = FalseMask => ret'.tied = FalseMask
            /\ ret.decided = TrueMask => ret'.decided = TrueMask
            /\ ret.tied = FalseMask => ret'.decided = ret.decided]_vars

\* C8 witness: a ct_gt run whose result is already latched while a later
\* field, in which self is the smaller one, is still to be applied.
C8_Witness ==
  /\ InOrderingRun
  /\ ret.ty = "IteratedGreater"
  /\ ret.decided = TrueMask
  /\ ret.tied = FalseMask
  /\ CurBody[pc].op = "apply_gt"
  /\ Recv(NextCall[2])[CurBody[pc].lfield] < Arg(NextCall[2])[CurBody[pc].rfield]

\* C9: every accumulator value after every statement, and every result of
\* ct_eq, ct_gt and ct_lt, is exactly the false mask or the true mask.
C9_CarriersWellFormed ==
  /\ ret.acc \in Masks
  /\ ret.tied \in Masks
  /\ ret.decided \in Masks
  /\ \A k \in 1..Len(res) : Calls[k][1] \in CtMethods => res[k] \in Masks

\* C9 witness: a ct_lt run that has applied all three fields and latched
\* a true result.
C9_Witness ==
  /\ ThreeFields
  /\ InOrderingRun
  /\ ret.ty = "IteratedLess"
  /\ CurBody[pc].op = "return"
  /\ ret.decided = TrueMask
  /\ ret.tied = FalseMask

InitTy(m) ==
  CASE m = "ct_eq" -> "IteratedEq"
    [] m = "ct_gt" -> "IteratedGreater"
    [] m = "ct_lt" -> "IteratedLess"

ApplyOf(m) ==
  CASE m = "ct_eq" -> "apply_eq"
    [] m = "ct_gt" -> "apply_gt"
    [] m = "ct_lt" -> "apply_lt"

\* The shape C10 requires of the body generated for method m.
WellShapedBody(m) ==
  LET B == impls[m] IN
  /\ Len(B) = N + 3
  /\ B[1].op = "use"
  /\ B[2].op = "initiate" /\ B[2].ty = InitTy(m)
  /\ \A i \in 1..N :
       /\ B[2 + i].op = ApplyOf(m)
       /\ B[2 + i].lobj = "self" /\ B[2 + i].lfield = Accessor(data, i)
       /\ B[2 + i].robj = "other" /\ B[2 + i].rfield = Accessor(data, i)
  /\ B[N + 3].op = "return"

C10_Shape ==
  /\ \A m \in CtMethods : impls[m] # << >> => WellShapedBody(m)
  /\ phase = "run" => log = SubSeq(CurBody, 1, pc - 1)
  /\ LastRunComplete => log = impls[Calls[Len(res)][1]]

\* C10: each generated body is one initiate, then one apply per field in
\* declaration order (field i of self against field i of other), then one
\* extract_result; a run executes exactly these statements, each once and
\* in order, and never changes either operand.
C10_BodyIsInitApplyExtract ==
  /\ []C10_Shape
  /\ [][phase = "run" => (self' = self /\ other' = other)]_vars

\* C10 witness: ct_lt has returned on a three-field tuple struct, its log
\* holding the three applies on fields 0, 1, 2.
C10_Witness ==
  /\ ThreeFields
  /\ data.kind = "Unnamed"
  /\ LastRunComplete
  /\ Calls[Len(res)] = <<"ct_lt", "rev">>
  /\ log[3].lfield = "0" /\ log[4].lfield = "1" /\ log[5].lfield = "2"
  /\ self # other

====
